---------------------------- MODULE Spec2Model ----------------------------
(***************************************************************************)
(* TinyTracer: the event-classification engine of the tracer.              *)
(*   - the transition classifier (_SaveTransitions) with its section       *)
(*     cursor and its last-shellcode page,                                 *)
(*   - the RDTSC / CPUID loggers and the argument probes,                  *)
(*   - the RDTSC spoofer (_setTimer),                                      *)
(*   - the watch list (FuncWatchList).                                     *)
(* The specifications share the variables: Spec (classifier, loggers,      *)
(* probes), SpecReplay, SpecTimer (spoofer), SpecWatch (watch list),       *)
(* SpecParam (paramToStr), SpecLoad (loadList) and SpecLock (the handlers  *)
(* of several threads around the client lock).                             *)
(***************************************************************************)
EXTENDS Integers, Sequences, FiniteSets, TLC

VARIABLES
    loaded,                 \* images the engine has mapped (IMG_FindByAddress)
    myModule,               \* pInfo: the traced image, or NoImg
    lastKnownSectionOffset, \* pInfo: the traced module's section cursor
    lastShellc,             \* static of _SaveTransitions
    m_FollowShellcode,      \* global, set once by main
    m_TraceRDTSC,           \* global, set once by main
    probes,                 \* entry probes installed by MonitorFunctionArgs
    traceLog,               \* the lines the handler that ran last appended
    ev,                     \* the event the handler that ran last was given
    replay,                 \* the last two edges handled, with what they logged
    funcs,                  \* g_Watch.funcs
    calls,                  \* the WFuncInfo values given to appendFunc so far
    Timer,                  \* static of _setTimer, four 16-bit limbs
    regs,                   \* per thread: the GDX / GAX registers
    pc,                     \* per thread: position around an RDTSC
    reads,                  \* the last two completed RDTSC executions
    memory,                 \* the target's readable memory, by address
    shown,                  \* the argument paramToStr was last given, and its result
    file,                   \* the watch-list file: its lines
    stream,                 \* the std::ifstream of loadList and the loop's position
    lock,                   \* the client lock: the thread holding it, or 0
    hnd                     \* per thread: the handler it is in, and where

vars == <<loaded, myModule, lastKnownSectionOffset, lastShellc,
          m_FollowShellcode, m_TraceRDTSC, probes, traceLog, ev, replay,
          funcs, calls, Timer, regs, pc, reads,
          memory, shown, file, stream, lock, hnd>>

traceVars == <<loaded, myModule, lastKnownSectionOffset, lastShellc,
               m_FollowShellcode, m_TraceRDTSC, probes, traceLog, ev, replay>>
watchVars == <<funcs, calls>>
timerVars == <<Timer, regs, pc, reads>>
probeVars == <<memory, shown>>
loadVars == <<file, stream>>
lockVars == <<lock, hnd>>
moreVars == <<probeVars, loadVars, lockVars>>

(***************************************************************************)
(* Strings are sequences of one-character strings, so that case folding,   *)
(* path stripping and comparison are computed and not assumed.             *)
(***************************************************************************)
UpperOf ==
    [c \in {"k", "u", "f", "g", "m"} |->
        CASE c = "k" -> "K" [] c = "u" -> "U" [] c = "f" -> "F"
          [] c = "g" -> "G" [] c = "m" -> "M"]

tolower(c) ==
    IF \E l \in DOMAIN UpperOf : UpperOf[l] = c
    THEN CHOOSE l \in DOMAIN UpperOf : UpperOf[l] = c
    ELSE c

\* compare strings, ignore case
isStrEqualI(str1, str2) ==
    /\ Len(str1) = Len(str2)
    /\ \A i \in 1..Len(str1) : tolower(str1[i]) = tolower(str2[i])

iequals(a, b) == isStrEqualI(a, b)

(***************************************************************************)
(* The address space: one traced image, one foreign image, and memory that *)
(* belongs to no image.  Addresses are the real numbers of the scenario.   *)
(***************************************************************************)
UNKNOWN_ADDR == -1
PAGE_SIZE == 4096

SHELLC_DO_NOT_FOLLOW == 0
SHELLC_FOLLOW_FIRST == 1
SHELLC_FOLLOW_RECURSIVE == 2
SHELLC_OPTIONS_COUNT == 3

NoImg == [name |-> <<>>, base |-> UNKNOWN_ADDR, size |-> 0]

\* 0x400000, three pages: .text, .data and a page no section covers
MainImg == [name |-> <<"c", "/", "M", ".", "e">>, base |-> 4194304, size |-> 12288]
\* 0x7000000, one page
K32Img == [name |-> <<"c", "/", "K", ".", "d">>, base |-> 117440512, size |-> 4096]
Images == {MainImg, K32Img}

app_name == <<"m">>

Sections ==
    << [name |-> ".text", start |-> 0, end |-> 4096],
       [name |-> ".data", start |-> 4096, end |-> 8192] >>

\* 0x400500 (.text), 0x401200 (.data), 0x402100 (no section),
\* 0x7000010 (K32Img), 0x10010 and 0x10020 (one page), 0x20000 (another page)
Addrs == {4195584, 4198912, 4202752, 117440528, 65552, 65568, 131072}

\* where a cpuid, an rdtsc or a probed call is seen: the traced image, the
\* foreign image, two pages of no image
Sites == {4195584, 117440528, 65552, 131072}

InImage(img, addr) == img.base <= addr /\ addr < img.base + img.size

IMG_Valid(img) == img # NoImg

IMG_FindByAddress(addr) ==
    IF \E img \in loaded : InImage(img, addr)
    THEN CHOOSE img \in loaded : InImage(img, addr)
    ELSE NoImg

IMG_Name(img) == img.name

get_func_at(addr) == addr - IMG_FindByAddress(addr).base

GetPageOfAddr(addr) == addr - (addr % PAGE_SIZE)

RECURSIVE LastIndexOf(_, _, _)
LastIndexOf(s, c, i) ==
    IF i = 0 THEN 0
    ELSE IF s[i] = c THEN i
    ELSE LastIndexOf(s, c, i - 1)

\* the file name of a path, without directories and extension, in lower case
getDllName(path) ==
    LET found == LastIndexOf(path, "/", Len(path))
        ext == LastIndexOf(path, ".", Len(path))
        stop == IF ext > found THEN ext - 1 ELSE Len(path)
        name == SubSeq(path, found + 1, stop)
    IN  [i \in 1..Len(name) |-> tolower(name[i])]

(***************************************************************************)
(* ProcessInfo                                                             *)
(***************************************************************************)
isMyAddress(addr) ==
    /\ addr # UNKNOWN_ADDR
    /\ IMG_Valid(myModule)
    /\ InImage(myModule, addr)

addr_to_rva(addr) ==
    LET img == IMG_FindByAddress(addr)
    IN  IF IMG_Valid(img) THEN addr - img.base ELSE addr

NoSec == [name |-> "?", start |-> 0, end |-> 0]

getSecByAddr(rva) ==
    IF rva # UNKNOWN_ADDR
       /\ \E i \in 1..Len(Sections) : Sections[i].start <= rva /\ rva < Sections[i].end
    THEN Sections[CHOOSE i \in 1..Len(Sections) :
                      Sections[i].start <= rva /\ rva < Sections[i].end]
    ELSE NoSec

\* updateTracedModuleSection: TRUE iff the section of rva is not the section
\* of the cursor; the cursor moves exactly then
sectionChanged(rva) == getSecByAddr(rva) # getSecByAddr(lastKnownSectionOffset)

updateTracedModuleSection(rva) ==
    IF sectionChanged(rva) THEN rva ELSE lastKnownSectionOffset

addModule(Image) ==
    IF iequals(getDllName(IMG_Name(Image)), app_name) THEN Image ELSE myModule


(***************************************************************************)
(* TraceLog: one record per line written.                                  *)
(***************************************************************************)
\* logCall(prevModuleBase, prevAddr, isRVA, module, func)
logCall(prevModuleBase, prevAddr, isRVA, module, func) ==
    [kind |-> "call", base |-> prevModuleBase, addr |-> prevAddr, isRVA |-> isRVA,
     viaShellcode |-> FALSE, module |-> module, func |-> func]

\* logCall(prevBase, prevAddr, calledPageBase, callAddr)
logCallShc(prevBase, prevAddr, calledPageBase, callAddr) ==
    [kind |-> "call", base |-> prevBase, addr |-> prevAddr, isRVA |-> TRUE,
     viaShellcode |-> TRUE, page |-> calledPageBase, target |-> callAddr]

logNewSectionCalled(prevAddr, prevSection, currSection) ==
    [kind |-> "section_entry", addr |-> prevAddr, prev |-> prevSection,
     curr |-> currSection]

logSectionChange(addr, sectionName) ==
    [kind |-> "section_change", addr |-> addr, section |-> sectionName]

logRdtsc(base, rva) == [kind |-> "rdtsc", base |-> base, rva |-> rva]

logCpuid(base, rva, param) ==
    [kind |-> "cpuid", base |-> base, rva |-> rva, param |-> param]

logLine(s) == [kind |-> "args", lines |-> s]

(***************************************************************************)
(* _SaveTransitions, in its three blocks.                                  *)
(***************************************************************************)
\* CaseB with the test of the follow mode before the hop left out
CaseB_HopInAnyMode(addrFrom, addrTo, shc) ==
    LET targetModule == IMG_FindByAddress(addrTo)
        callerModule == IMG_FindByAddress(addrFrom)
        pageFrom == GetPageOfAddr(addrFrom)
        pageTo == GetPageOfAddr(addrTo)
    IN  IF /\ m_FollowShellcode # 0
           /\ ~IMG_Valid(callerModule)
           /\ pageFrom # UNKNOWN_ADDR
           /\ pageFrom = shc
        THEN IF IMG_Valid(targetModule)
             THEN [shellc |-> shc,
                   log |-> << logCall(pageFrom, addrFrom, FALSE,
                                      IMG_Name(targetModule), get_func_at(addrTo)) >>]
             ELSE IF pageFrom # pageTo
             THEN [shellc |-> pageTo, log |-> << >>]
             ELSE [shellc |-> shc, log |-> << >>]
        ELSE [shellc |-> shc, log |-> << >>]

\* CaseB with the comparison of the caller's page with lastShellc left out
CaseB_AnyPage(addrFrom, addrTo, shc) ==
    LET targetModule == IMG_FindByAddress(addrTo)
        callerModule == IMG_FindByAddress(addrFrom)
        pageFrom == GetPageOfAddr(addrFrom)
        pageTo == GetPageOfAddr(addrTo)
    IN  IF /\ m_FollowShellcode # 0
           /\ ~IMG_Valid(callerModule)
           /\ pageFrom # UNKNOWN_ADDR
        THEN IF IMG_Valid(targetModule)
             THEN [shellc |-> shc,
                   log |-> << logCall(pageFrom, addrFrom, FALSE,
                                      IMG_Name(targetModule), get_func_at(addrTo)) >>]
             ELSE IF pageFrom # pageTo /\ m_FollowShellcode = SHELLC_FOLLOW_RECURSIVE
             THEN [shellc |-> pageTo, log |-> << >>]
             ELSE [shellc |-> shc, log |-> << >>]
        ELSE [shellc |-> shc, log |-> << >>]

\* CaseC with the test that the target is in the traced module left out
CaseC_AnyTarget(addrFrom, addrTo) ==
    LET isCallerMy == isMyAddress(addrFrom)
        rva == addr_to_rva(addrTo)
        curr_name == getSecByAddr(rva).name
        rvaFrom == addr_to_rva(addrFrom)
        prev_name == getSecByAddr(rvaFrom).name
    IN  IF sectionChanged(rva)
        THEN [cursor |-> updateTracedModuleSection(rva),
              log |-> (IF isCallerMy
                       THEN << logNewSectionCalled(rvaFrom, prev_name, curr_name) >>
                       ELSE << >>)
                      \o << logSectionChange(rva, curr_name) >>]
        ELSE [cursor |-> lastKnownSectionOffset, log |-> << >>]

\* CaseC writing the section change before the section entry
CaseC_ChangeFirst(addrFrom, addrTo) ==
    LET isTargetMy == isMyAddress(addrTo)
        isCallerMy == isMyAddress(addrFrom)
        rva == addr_to_rva(addrTo)
        curr_name == getSecByAddr(rva).name
        rvaFrom == addr_to_rva(addrFrom)
        prev_name == getSecByAddr(rvaFrom).name
    IN  IF isTargetMy /\ sectionChanged(rva)
        THEN [cursor |-> updateTracedModuleSection(rva),
              log |-> << logSectionChange(rva, curr_name) >>
                      \o (IF isCallerMy
                          THEN << logNewSectionCalled(rvaFrom, prev_name, curr_name) >>
                          ELSE << >>)]
        ELSE [cursor |-> lastKnownSectionOffset, log |-> << >>]

\* CaseC naming the cursor's section, not the origin's, as the previous one
CaseC_PrevFromCursor(addrFrom, addrTo) ==
    LET isTargetMy == isMyAddress(addrTo)
        isCallerMy == isMyAddress(addrFrom)
        rva == addr_to_rva(addrTo)
        curr_name == getSecByAddr(rva).name
        rvaFrom == addr_to_rva(addrFrom)
        prev_name == getSecByAddr(lastKnownSectionOffset).name
    IN  IF isTargetMy /\ sectionChanged(rva)
        THEN [cursor |-> updateTracedModuleSection(rva),
              log |-> (IF isCallerMy
                       THEN << logNewSectionCalled(rvaFrom, prev_name, curr_name) >>
                       ELSE << >>)
                      \o << logSectionChange(rva, curr_name) >>]
        ELSE [cursor |-> lastKnownSectionOffset, log |-> << >>]

\* CaseC that logs the crossing and leaves the cursor where it was
CaseC_CursorKept(addrFrom, addrTo) ==
    LET isTargetMy == isMyAddress(addrTo)
        isCallerMy == isMyAddress(addrFrom)
        rva == addr_to_rva(addrTo)
        curr_name == getSecByAddr(rva).name
        rvaFrom == addr_to_rva(addrFrom)
        prev_name == getSecByAddr(rvaFrom).name
    IN  IF isTargetMy /\ sectionChanged(rva)
        THEN [cursor |-> lastKnownSectionOffset,
              log |-> (IF isCallerMy
                       THEN << logNewSectionCalled(rvaFrom, prev_name, curr_name) >>
                       ELSE << >>)
                      \o << logSectionChange(rva, curr_name) >>]
        ELSE [cursor |-> lastKnownSectionOffset, log |-> << >>]

\* CaseC that moves the cursor only for an origin inside the traced module
CaseC_TracedOriginOnly(addrFrom, addrTo) ==
    LET isTargetMy == isMyAddress(addrTo)
        isCallerMy == isMyAddress(addrFrom)
        rva == addr_to_rva(addrTo)
        curr_name == getSecByAddr(rva).name
        rvaFrom == addr_to_rva(addrFrom)
        prev_name == getSecByAddr(rvaFrom).name
    IN  IF isTargetMy /\ isCallerMy /\ sectionChanged(rva)
        THEN [cursor |-> updateTracedModuleSection(rva),
              log |-> << logNewSectionCalled(rvaFrom, prev_name, curr_name),
                         logSectionChange(rva, curr_name) >>]
        ELSE [cursor |-> lastKnownSectionOffset, log |-> << >>]

\* CaseC that gives logNewSectionCalled the two names the other way round
CaseC_NamesSwapped(addrFrom, addrTo) ==
    LET isTargetMy == isMyAddress(addrTo)
        isCallerMy == isMyAddress(addrFrom)
        rva == addr_to_rva(addrTo)
        curr_name == getSecByAddr(rva).name
        rvaFrom == addr_to_rva(addrFrom)
        prev_name == getSecByAddr(rvaFrom).name
    IN  IF isTargetMy /\ sectionChanged(rva)
        THEN [cursor |-> updateTracedModuleSection(rva),
              log |-> (IF isCallerMy
                       THEN << logNewSectionCalled(rvaFrom, curr_name, prev_name) >>
                       ELSE << >>)
                      \o << logSectionChange(rva, curr_name) >>]
        ELSE [cursor |-> lastKnownSectionOffset, log |-> << >>]

\* CaseB with the test of the follow mode left out of its condition
CaseB_AnyMode(addrFrom, addrTo, shc) ==
    LET targetModule == IMG_FindByAddress(addrTo)
        callerModule == IMG_FindByAddress(addrFrom)
        pageFrom == GetPageOfAddr(addrFrom)
        pageTo == GetPageOfAddr(addrTo)
    IN  IF /\ ~IMG_Valid(callerModule)
           /\ pageFrom # UNKNOWN_ADDR
           /\ pageFrom = shc
        THEN IF IMG_Valid(targetModule)
             THEN [shellc |-> shc,
                   log |-> << logCall(pageFrom, addrFrom, FALSE,
                                      IMG_Name(targetModule), get_func_at(addrTo)) >>]
             ELSE IF pageFrom # pageTo /\ m_FollowShellcode = SHELLC_FOLLOW_RECURSIVE
             THEN [shellc |-> pageTo, log |-> << >>]
             ELSE [shellc |-> shc, log |-> << >>]
        ELSE [shellc |-> shc, log |-> << >>]

\* is it a transition from the traced module to a foreign module?
\* gives the value of lastShellc and the lines logged by the first block
CaseA(addrFrom, addrTo) ==
    LET isTargetMy == isMyAddress(addrTo)
        isCallerMy == isMyAddress(addrFrom)
        targetModule == IMG_FindByAddress(addrTo)
        pageTo == GetPageOfAddr(addrTo)
        RvaFrom == addr_to_rva(addrFrom)
    IN  IF isCallerMy /\ ~isTargetMy
        THEN IF IMG_Valid(targetModule)
             THEN [shellc |-> lastShellc,
                   log |-> << logCall(0, RvaFrom, TRUE, IMG_Name(targetModule),
                                      get_func_at(addrTo)) >>]
             ELSE \* not in any of the mapped modules
                  [shellc |-> pageTo,
                   log |-> << logCallShc(0, RvaFrom, pageTo, addrTo) >>]
        ELSE [shellc |-> lastShellc, log |-> << >>]

\* trace calls from within the last shellcode that was called from the traced
\* module; shc is lastShellc as the first block left it
CaseB(addrFrom, addrTo, shc) ==
    LET targetModule == IMG_FindByAddress(addrTo)
        callerModule == IMG_FindByAddress(addrFrom)
        pageFrom == GetPageOfAddr(addrFrom)
        pageTo == GetPageOfAddr(addrTo)
        callerPage == pageFrom
    IN  IF /\ m_FollowShellcode # 0
           /\ ~IMG_Valid(callerModule)
           /\ callerPage # UNKNOWN_ADDR
           /\ callerPage = shc
        THEN IF IMG_Valid(targetModule)
             THEN [shellc |-> shc,
                   log |-> << logCall(callerPage, addrFrom, FALSE,
                                      IMG_Name(targetModule), get_func_at(addrTo)) >>]
             ELSE IF pageFrom # pageTo /\ m_FollowShellcode = SHELLC_FOLLOW_RECURSIVE
             THEN [shellc |-> pageTo, log |-> << >>]
             ELSE [shellc |-> shc, log |-> << >>]
        ELSE [shellc |-> shc, log |-> << >>]

\* is the address within the traced module?
\* gives the section cursor and the lines logged by the third block
CaseC(addrFrom, addrTo) ==
    LET isTargetMy == isMyAddress(addrTo)
        isCallerMy == isMyAddress(addrFrom)
        rva == addr_to_rva(addrTo)
        curr_name == getSecByAddr(rva).name
        rvaFrom == addr_to_rva(addrFrom)
        prev_name == getSecByAddr(rvaFrom).name
    IN  IF isTargetMy /\ sectionChanged(rva)
        THEN [cursor |-> updateTracedModuleSection(rva),
              log |-> (IF isCallerMy
                       THEN << logNewSectionCalled(rvaFrom, prev_name, curr_name) >>
                       ELSE << >>)
                      \o << logSectionChange(rva, curr_name) >>]
        ELSE [cursor |-> lastKnownSectionOffset, log |-> << >>]

_SaveTransitions(addrFrom, addrTo) ==
    LET a == CaseA(addrFrom, addrTo)
        b == CaseB(addrFrom, addrTo, a.shellc)
        c == CaseC(addrFrom, addrTo)
    IN  /\ lastShellc' = b.shellc
        /\ lastKnownSectionOffset' = c.cursor
        /\ traceLog' = a.log \o b.log \o c.log
        /\ ev' = [kind |-> "edge", from |-> addrFrom, to |-> addrTo]
        /\ UNCHANGED <<loaded, myModule, m_FollowShellcode, m_TraceRDTSC, probes>>

SaveTransitions(prevVA, Address) ==
    /\ _SaveTransitions(prevVA, Address)
    /\ UNCHANGED <<replay, watchVars, timerVars, moreVars>>

\* a context: its instruction pointer; NULL is the missing context
NULL == [null |-> TRUE, REG_INST_PTR |-> 0]

\* the contexts a context change is seen with: .text, .data, a shellcode page
Contexts ==
    {NULL} \cup {[null |-> FALSE, REG_INST_PTR |-> a] : a \in {4195584, 4198912, 65552}}

OnCtxChange(ctxtFrom, ctxtTo) ==
    IF ctxtTo = NULL \/ ctxtFrom = NULL
    THEN UNCHANGED vars
    ELSE /\ _SaveTransitions(ctxtFrom.REG_INST_PTR, ctxtTo.REG_INST_PTR)
         /\ UNCHANGED <<replay, watchVars, timerVars, moreVars>>

(***************************************************************************)
(* RDTSC and CPUID loggers.                                                *)
(***************************************************************************)
\* the lines RdtscCalled writes for an instruction at Address
RdtscLog(Address) ==
    LET currModule == IMG_FindByAddress(Address)
        isCurrMy == isMyAddress(Address)
        start == GetPageOfAddr(Address)
    IN  (IF isCurrMy THEN << logRdtsc(0, addr_to_rva(Address)) >> ELSE << >>)
        \o (IF m_FollowShellcode # 0 /\ ~IMG_Valid(currModule) /\ start # UNKNOWN_ADDR
            THEN << logRdtsc(start, Address - start) >>
            ELSE << >>)

RdtscCalled(Address) ==
    /\ m_TraceRDTSC
    /\ traceLog' = RdtscLog(Address)
    /\ ev' = [kind |-> "rdtsc", from |-> Address, to |-> UNKNOWN_ADDR]
    /\ UNCHANGED <<loaded, myModule, lastKnownSectionOffset, lastShellc,
                   m_FollowShellcode, m_TraceRDTSC, probes, replay,
                   watchVars, timerVars, moreVars>>

\* the lines CpuidCalled writes for an instruction at Address with GAX = Param
CpuidLog(Address, Param) ==
    LET currModule == IMG_FindByAddress(Address)
        isCurrMy == isMyAddress(Address)
        start == GetPageOfAddr(Address)
    IN  (IF isCurrMy THEN << logCpuid(0, addr_to_rva(Address), Param) >> ELSE << >>)
        \o (IF m_FollowShellcode # 0 /\ ~IMG_Valid(currModule) /\ start # UNKNOWN_ADDR
            THEN << logCpuid(start, Address - start, Param) >>
            ELSE << >>)

CpuidCalled(Address, Param) ==
    /\ traceLog' = CpuidLog(Address, Param)
    /\ ev' = [kind |-> "cpuid", from |-> Address, to |-> UNKNOWN_ADDR]
    /\ UNCHANGED <<loaded, myModule, lastKnownSectionOffset, lastShellc,
                   m_FollowShellcode, m_TraceRDTSC, probes, replay,
                   watchVars, timerVars, moreVars>>

(***************************************************************************)
(* Argument probes.                                                        *)
(***************************************************************************)
\* the target's memory: readable addresses and the bytes found there
Mem ==
    (3000 :> <<67, 58, 92, 97, 0>>) @@   \* "C:\a"
    (3100 :> <<97, 0, 98, 0, 0, 0>>) @@  \* L"ab"
    (3200 :> <<1, 2, 0>>) @@             \* binary
    (3300 :> <<97, 1, 98, 0>>)           \* one printable byte, no printable unit

\* 2000 is an address that cannot be read
ArgValues == {0, 2000} \cup DOMAIN Mem

\* no argument classified yet
NoShown == [arg |-> 0, out |-> [class |-> "none", value |-> 0]]

\* the state of the parts of the tool a specification leaves alone
IdleProbe == memory = Mem /\ shown = NoShown
IdleLoad == file = << >> /\ stream = [line |-> 0, state |-> "closed"]
IdleLock == lock = 0 /\ hnd = << >>

PIN_CheckReadAccess(arg1) == arg1 \in DOMAIN memory

ByteAt(arg1, i) == IF i < Len(memory[arg1]) THEN memory[arg1][i + 1] ELSE 0

WordAt(arg1, i) == ByteAt(arg1, 2 * i) + 256 * ByteAt(arg1, 2 * i + 1)

IS_PRINTABLE(c) == 32 <= c /\ c < 127

kMaxStr == 300
argsMax == 10

RECURSIVE getAsciiLenFrom(_, _, _)
getAsciiLenFrom(arg1, maxInp, i) ==
    IF i >= maxInp THEN i
    ELSE IF ~IS_PRINTABLE(ByteAt(arg1, i)) THEN i
    ELSE getAsciiLenFrom(arg1, maxInp, i + 1)

getAsciiLen(arg1, maxInp) == getAsciiLenFrom(arg1, maxInp, 0)

RECURSIVE getAsciiLenWFrom(_, _, _)
getAsciiLenWFrom(arg1, maxInp, i) ==
    IF i >= maxInp THEN i
    ELSE IF ~IS_PRINTABLE(WordAt(arg1, i)) THEN i
    ELSE getAsciiLenWFrom(arg1, maxInp, i + 1)

getAsciiLenW(arg1, maxInp) == getAsciiLenWFrom(arg1, maxInp, 0)

\* paramToStr without the wide-string branch: one printable byte is a string
paramToStr_AsciiFromOne(arg1) ==
    IF arg1 = 0 THEN [class |-> "zero", value |-> 0]
    ELSE IF ~PIN_CheckReadAccess(arg1) THEN [class |-> "hex", value |-> arg1]
    ELSE LET len == getAsciiLen(arg1, kMaxStr)
         IN  IF len >= 1 THEN [class |-> "ascii", value |-> arg1]
             ELSE [class |-> "ptr", value |-> arg1]

\* paramToStr without the comparison of the two lengths
paramToStr_WideAlways(arg1) ==
    IF arg1 = 0 THEN [class |-> "zero", value |-> 0]
    ELSE IF ~PIN_CheckReadAccess(arg1) THEN [class |-> "hex", value |-> arg1]
    ELSE LET len == getAsciiLen(arg1, kMaxStr)
         IN  IF len = 1 THEN [class |-> "wide", value |-> arg1]
             ELSE IF len > 1 THEN [class |-> "ascii", value |-> arg1]
             ELSE [class |-> "ptr", value |-> arg1]

\* paramToStr: the class of the text written and the value it is written from
paramToStr(arg1) ==
    IF arg1 = 0 THEN [class |-> "zero", value |-> 0]
    ELSE IF ~PIN_CheckReadAccess(arg1) THEN [class |-> "hex", value |-> arg1]
    ELSE LET len == getAsciiLen(arg1, kMaxStr)
             wLen == getAsciiLenW(arg1, kMaxStr)
         IN  IF len = 1 /\ wLen >= len THEN [class |-> "wide", value |-> arg1]
             ELSE IF len > 1 THEN [class |-> "ascii", value |-> arg1]
             ELSE [class |-> "ptr", value |-> arg1]

\* isWatchedAddress with the test of the follow mode left out
isWatchedAddress_AnyMode(Address) ==
    LET currModule == IMG_FindByAddress(Address)
        isCurrMy == isMyAddress(Address)
        start == GetPageOfAddr(Address)
    IN  \/ isCurrMy
        \/ (~IMG_Valid(currModule) /\ start # UNKNOWN_ADDR)

isWatchedAddress(Address) ==
    LET currModule == IMG_FindByAddress(Address)
        isCurrMy == isMyAddress(Address)
        start == GetPageOfAddr(Address)
    IN  \/ isCurrMy
        \/ (m_FollowShellcode # 0 /\ ~IMG_Valid(currModule) /\ start # UNKNOWN_ADDR)

Min(a, b) == IF a < b THEN a ELSE b

\* the line _LogFunctionArgs writes, or none when the call site is not watched
ArgsLog(Address, argCount, args) ==
    IF ~isWatchedAddress(Address) THEN << >>
    ELSE << logLine([i \in 1..Min(argCount, argsMax) |-> paramToStr(args[i])]) >>

LogFunctionArgs(Address, name, argCount, args) ==
    /\ traceLog' = ArgsLog(Address, argCount, args)
    /\ ev' = [kind |-> "probe", from |-> Address, to |-> UNKNOWN_ADDR]
    /\ UNCHANGED <<loaded, myModule, lastKnownSectionOffset, lastShellc,
                   m_FollowShellcode, m_TraceRDTSC, probes, replay,
                   watchVars, timerVars, moreVars>>

\* WFuncInfo::isValid
isValid(info) == Len(info.dllName) > 0 /\ Len(info.funcName) > 0

\* the exported routines of an image, by name
Exports(Image) == IF Image = K32Img THEN {<<"f">>} ELSE {}

RTN_Valid(Image, fName) == fName \in Exports(Image)

\* the probe MonitorFunctionArgs installs for a watch entry, if any
MonitorFunctionArgs(Image, funcInfo) ==
    IF ~RTN_Valid(Image, funcInfo.funcName) \/ ~isValid(funcInfo)
    THEN {}
    ELSE {[image |-> Image.base, name |-> funcInfo.funcName,
           argNum |-> funcInfo.paramCount]}

ImageLoad(Image) ==
    /\ Image \notin loaded
    /\ loaded' = loaded \cup {Image}
    /\ myModule' = addModule(Image)
    /\ probes' = probes \cup
          UNION { MonitorFunctionArgs(Image, funcs[i]) :
                    i \in { j \in 1..Len(funcs) :
                              iequals(getDllName(IMG_Name(Image)), funcs[j].dllName) } }
    /\ traceLog' = << >>
    /\ ev' = [kind |-> "load", from |-> Image.base, to |-> UNKNOWN_ADDR]
    /\ UNCHANGED <<lastKnownSectionOffset, lastShellc, m_FollowShellcode,
                   m_TraceRDTSC, replay, watchVars, timerVars, moreVars>>

(***************************************************************************)
(* main: the knobs, then the session.                                      *)
(***************************************************************************)
ConvertShcOption(value) ==
    IF value >= SHELLC_OPTIONS_COUNT THEN SHELLC_FOLLOW_RECURSIVE ELSE value

\* values of the -f knob
KnobValues == -1..4

\* the watch list the session runs with
WatchSample == << [dllName |-> <<"k">>, funcName |-> <<"f">>, paramCount |-> 2] >>

\* the argument values a probed call is seen with
ProbeArgs == {0, 3000}

CpuidLeaves == {0, 1}

ZeroTimer == <<0, 0, 0, 0>>

Init ==
    /\ loaded = {}
    /\ myModule = NoImg
    /\ lastKnownSectionOffset = UNKNOWN_ADDR
    /\ lastShellc = UNKNOWN_ADDR
    /\ m_FollowShellcode \in {ConvertShcOption(v) : v \in KnobValues}
    /\ m_TraceRDTSC \in BOOLEAN
    /\ probes = {}
    /\ traceLog = << >>
    /\ ev = [kind |-> "init", from |-> UNKNOWN_ADDR, to |-> UNKNOWN_ADDR]
    /\ replay = << >>
    /\ funcs = WatchSample
    /\ calls = << >>
    /\ Timer = ZeroTimer
    /\ regs = << >>
    /\ pc = << >>
    /\ reads = << >>
    /\ IdleProbe
    /\ IdleLoad
    /\ IdleLock

Next ==
    \/ \E Image \in Images : ImageLoad(Image)
    \/ \E f \in Addrs, t \in Addrs : SaveTransitions(f, t)
    \/ \E f \in Contexts, t \in Contexts : OnCtxChange(f, t)
    \/ \E a \in Sites : RdtscCalled(a)
    \/ \E a \in Sites, p \in CpuidLeaves : CpuidCalled(a, p)
    \/ \E a \in Sites, pr \in probes :
          \E args \in [1..Min(pr.argNum, argsMax) -> ProbeArgs] :
             LogFunctionArgs(a, pr.name, pr.argNum, args)

Spec == Init /\ [][Next]_vars

(***************************************************************************)
(* A second specification of the classifier, which remembers the edge      *)
(* handled last and, when the edge before it was the same edge, that one   *)
(* too.  Each remembered edge keeps the two tests the handler made and the *)
(* lines it wrote.                                                         *)
(***************************************************************************)
Remember(addrFrom, addrTo) ==
    LET this == [from |-> addrFrom, to |-> addrTo,
                 isCallerMy |-> isMyAddress(addrFrom),
                 isTargetMy |-> isMyAddress(addrTo),
                 log |-> traceLog']
        last == replay[Len(replay)]
    IN  IF replay # << >> /\ last.from = addrFrom /\ last.to = addrTo
        THEN << last, this >>
        ELSE << this >>

ReplayEdge(prevVA, Address) ==
    /\ _SaveTransitions(prevVA, Address)
    /\ replay' = Remember(prevVA, Address)
    /\ UNCHANGED <<watchVars, timerVars, moreVars>>

NextReplay ==
    \/ \E Image \in Images : ImageLoad(Image)
    \/ \E f \in Addrs, t \in Addrs : ReplayEdge(f, t)

\* no RDTSC event is part of this specification
InitReplay == Init /\ ~m_TraceRDTSC

SpecReplay == InitReplay /\ [][NextReplay]_vars

(***************************************************************************)
(* Properties of the classifier.                                           *)
(***************************************************************************)
Count(log, kind) == Cardinality({i \in DOMAIN log : log[i].kind = kind})

IndexOf(log, kind) == CHOOSE i \in DOMAIN log : log[i].kind = kind

Edge(f, t) == [kind |-> "edge", from |-> f, to |-> t]

InTraced(addr) == MainImg \in loaded /\ InImage(MainImg, addr)

InKnownModule(addr) == \E img \in loaded : InImage(img, addr)

OffsetOf(addr) == addr - MainImg.base

PageOf(addr) == (addr \div PAGE_SIZE) * PAGE_SIZE

\* C1: an edge from the traced module to an address outside it that lies in
\* a known module appends exactly one call-out record and neither a
\* section-change nor a section-entry record.
C1_CallOutOnly ==
    (/\ ev.kind = "edge"
     /\ InTraced(ev.from)
     /\ ~InTraced(ev.to)
     /\ InKnownModule(ev.to))
    => /\ Count(traceLog, "call") = 1
       /\ Count(traceLog, "section_change") = 0
       /\ Count(traceLog, "section_entry") = 0

C1_Witness ==
    /\ ev = Edge(4195584, 117440528)
    /\ InTraced(ev.from)
    /\ InKnownModule(ev.to)
    /\ Len(traceLog) = 1
    /\ traceLog[1].kind = "call"
    /\ getSecByAddr(lastKnownSectionOffset).name = ".data"

\* C2: an edge into the traced module whose target offset lies in a section
\* other than the cursor's appends exactly one section-change record; when
\* the origin is in the traced module too it appends exactly one
\* section-entry record, and that one comes first.
C2_SectionChange ==
    [][\A f \in Addrs, t \in Addrs :
         (/\ ev' = Edge(f, t)
          /\ InTraced(t)
          /\ getSecByAddr(OffsetOf(t)) # getSecByAddr(lastKnownSectionOffset))
         => /\ Count(traceLog', "section_change") = 1
            /\ InTraced(f) =>
                 /\ Count(traceLog', "section_entry") = 1
                 /\ IndexOf(traceLog', "section_entry")
                      < IndexOf(traceLog', "section_change")]_vars

C2_Witness ==
    /\ ev.kind = "edge"
    /\ InTraced(ev.from)
    /\ InTraced(ev.to)
    /\ Len(traceLog) = 2
    /\ traceLog[1].kind = "section_entry"
    /\ traceLog[2].kind = "section_change"

InSection(addr) == InTraced(addr) /\ getSecByAddr(OffsetOf(addr)) # NoSec

CrossSection(f, t) ==
    /\ InSection(f)
    /\ InSection(t)
    /\ getSecByAddr(OffsetOf(f)) # getSecByAddr(OffsetOf(t))

\* the two lines of a section crossing from f to t
CrossingLines(f, t) ==
    << [kind |-> "section_entry", addr |-> OffsetOf(f),
        prev |-> getSecByAddr(OffsetOf(f)).name,
        curr |-> getSecByAddr(OffsetOf(t)).name],
       [kind |-> "section_change", addr |-> OffsetOf(t),
        section |-> getSecByAddr(OffsetOf(t)).name] >>

\* C3 as stated: an edge from one section of the traced module to another
\* section of it appends exactly the section-entry record (fromOffset, origin
\* section, target section) and the section-change record (toOffset, target
\* section), whatever edges were handled before it.
C3_AnyHistory ==
    (ev.kind = "edge" /\ CrossSection(ev.from, ev.to))
    => traceLog = CrossingLines(ev.from, ev.to)

\* C3 as amended: the same edge appends exactly those two records when the
\* section cursor is not already in the target's section, and no section
\* record when it is.
C3_CursorElsewhere ==
    [][\A f \in Addrs, t \in Addrs :
         (ev' = Edge(f, t) /\ CrossSection(f, t))
         => IF getSecByAddr(lastKnownSectionOffset) # getSecByAddr(OffsetOf(t))
            THEN traceLog' = CrossingLines(f, t)
            ELSE /\ Count(traceLog', "section_entry") = 0
                 /\ Count(traceLog', "section_change") = 0]_vars

\* the scenario: 0x400500 in .text to 0x401200 in .data
C3_Witness ==
    /\ ev = Edge(4195584, 4198912)
    /\ InTraced(ev.from)
    /\ traceLog = << [kind |-> "section_entry", addr |-> 1280,
                      prev |-> ".text", curr |-> ".data"],
                     [kind |-> "section_change", addr |-> 4608,
                      section |-> ".data"] >>

HasCallOut(log) == \E i \in DOMAIN log : log[i].kind = "call" /\ log[i].isRVA

HasSectionChange(log) == Count(log, "section_change") > 0

\* C4: when the same edge is handled twice with no other edge between, each
\* of the two occasions on which it leaves the traced module writes a
\* call-out record, and when it arrives in the traced module at most one of
\* the two occasions writes a section-change record.
C4_Replay ==
    Len(replay) = 2 =>
       /\ \A i \in 1..2 :
            (replay[i].isCallerMy /\ ~replay[i].isTargetMy) => HasCallOut(replay[i].log)
       /\ replay[2].isTargetMy =>
            ~(HasSectionChange(replay[1].log) /\ HasSectionChange(replay[2].log))

C4_Witness ==
    /\ Len(replay) = 2
    /\ replay[1].isTargetMy
    /\ replay[2].isTargetMy
    /\ HasSectionChange(replay[1].log)
    /\ ~HasSectionChange(replay[2].log)

\* the same, for an edge that leaves the traced module on both occasions
C4_LeavingTwice ==
    /\ Len(replay) = 2
    /\ \A i \in 1..2 :
         replay[i].isCallerMy /\ ~replay[i].isTargetMy /\ HasCallOut(replay[i].log)

\* Case A's branch for a destination in no mapped module
TookUnmappedBranch(f, t) ==
    InTraced(f) /\ ~InTraced(t) /\ ~InKnownModule(t)

\* Case B's branch that hops to the shellcode called from the current one
TookRecursiveHop(f, t) ==
    /\ m_FollowShellcode = SHELLC_FOLLOW_RECURSIVE
    /\ ~InKnownModule(f)
    /\ PageOf(f) = lastShellc
    /\ ~InKnownModule(t)
    /\ PageOf(f) # PageOf(t)

\* C5: lastShellc is the sentinel until an edge takes Case A's branch for an
\* unmapped destination or Case B's recursive hop; only such an edge changes
\* it, and it changes it to the page of the edge's target.
C5_ShellcPage ==
    /\ lastShellc = UNKNOWN_ADDR
    /\ [][lastShellc' # lastShellc =>
            \E f \in Addrs, t \in Addrs :
               /\ ev' = Edge(f, t)
               /\ TookUnmappedBranch(f, t) \/ TookRecursiveHop(f, t)
               /\ lastShellc' = PageOf(t)]_vars

\* a recursive hop has been taken, from page 0x10000 to page 0x20000
C5_Witness ==
    /\ ev = Edge(65552, 131072)
    /\ lastShellc = 131072
    /\ m_FollowShellcode = SHELLC_FOLLOW_RECURSIVE

FromShellcode(r) == r.kind = "call" /\ ~r.isRVA

HasArgDump(log) == Count(log, "args") > 0

\* C7 as stated: a probe dumps arguments only for a call site in the traced
\* module or, with follow mode on, on the page lastShellc.
C7_FollowedPageOnly ==
    (ev.kind = "probe" /\ HasArgDump(traceLog))
    => \/ InTraced(ev.from)
       \/ (m_FollowShellcode # SHELLC_DO_NOT_FOLLOW /\ PageOf(ev.from) = lastShellc)

\* C7 as amended: a probe dumps arguments only for a call site in the traced
\* module or, with follow mode on, in memory of no loaded module.
C7_AnyUnmappedSite ==
    (ev.kind = "probe" /\ HasArgDump(traceLog))
    => \/ InTraced(ev.from)
       \/ (m_FollowShellcode # SHELLC_DO_NOT_FOLLOW /\ ~InKnownModule(ev.from))

\* a dump for a call site on a page that is not the followed one
C7_Witness ==
    /\ ev.kind = "probe"
    /\ HasArgDump(traceLog)
    /\ ~InKnownModule(ev.from)
    /\ lastShellc # UNKNOWN_ADDR
    /\ PageOf(ev.from) # lastShellc

\* the records that have an origin address
Originated == {"call", "rdtsc", "cpuid", "args"}

\* C15: with follow mode Off, a handler writes a call, rdtsc, cpuid or
\* argument record only for an origin address inside the traced module, and
\* the record gives that origin as an offset into the traced module.
C15_OffOnlyTraced ==
    m_FollowShellcode = SHELLC_DO_NOT_FOLLOW =>
       \A i \in DOMAIN traceLog :
          traceLog[i].kind \in Originated =>
             /\ InTraced(ev.from)
             /\ traceLog[i].kind = "call" =>
                   /\ traceLog[i].base = 0
                   /\ traceLog[i].addr = OffsetOf(ev.from)
             /\ traceLog[i].kind \in {"rdtsc", "cpuid"} =>
                   /\ traceLog[i].base = 0
                   /\ traceLog[i].rva = OffsetOf(ev.from)

\* follow mode Off: the traced module has called into a page of no module,
\* which is remembered, and a call from that page into a known module has
\* been handled without a record
C15_Witness ==
    /\ m_FollowShellcode = SHELLC_DO_NOT_FOLLOW
    /\ ev = Edge(65552, 117440528)
    /\ K32Img \in loaded
    /\ lastShellc = PageOf(65552)
    /\ traceLog = << >>

\* C16: the follow mode is Off, FollowFirst or FollowRecursive whatever the
\* value of the option, and no step changes it.
C16_ModeInRange ==
    /\ m_FollowShellcode \in {SHELLC_DO_NOT_FOLLOW, SHELLC_FOLLOW_FIRST,
                              SHELLC_FOLLOW_RECURSIVE}
    /\ [][m_FollowShellcode' = m_FollowShellcode]_vars

\* the session of the option value -1: the mode is none of the three, and with
\* it a call from a followed page is logged as under FollowFirst
C16_OutOfRange ==
    /\ m_FollowShellcode = ConvertShcOption(-1)
    /\ m_FollowShellcode \notin {SHELLC_DO_NOT_FOLLOW, SHELLC_FOLLOW_FIRST,
                                 SHELLC_FOLLOW_RECURSIVE}
    /\ ev = Edge(65552, 117440528)
    /\ Count(traceLog, "call") = 1

\* C17: after an edge whose target is inside the traced module the cursor is
\* in the section of the target's offset (in none, if no section covers it);
\* an edge whose target is outside the traced module, and every step that is
\* not an edge, leaves the cursor as it was.
C17_CursorFollowsTarget ==
    [][/\ (ev'.kind = "edge" /\ InTraced(ev'.to))
            => getSecByAddr(lastKnownSectionOffset') = getSecByAddr(OffsetOf(ev'.to))
       /\ (ev'.kind = "edge" /\ ~InTraced(ev'.to))
            => lastKnownSectionOffset' = lastKnownSectionOffset
       /\ ev'.kind # "edge"
            => lastKnownSectionOffset' = lastKnownSectionOffset]_vars

\* the foreign module has returned into .data and the cursor is there
C17_Witness ==
    /\ ev = Edge(117440528, 4198912)
    /\ InTraced(ev.to)
    /\ lastKnownSectionOffset = OffsetOf(4198912)
    /\ getSecByAddr(lastKnownSectionOffset).name = ".data"

\* C19 as stated: a section-entry record never has the same name twice.
C19_DistinctNames ==
    \A i \in DOMAIN traceLog :
       traceLog[i].kind = "section_entry" => traceLog[i].prev # traceLog[i].curr

\* C19 as amended: a section-entry record names the section of the origin's
\* offset and the section of the target's offset, and is written only when
\* the target's section is not the section the cursor was in.
C19_NewDiffersFromCursor ==
    [][\A i \in DOMAIN traceLog' :
         (ev'.kind = "edge" /\ traceLog'[i].kind = "section_entry") =>
            /\ traceLog'[i].prev = getSecByAddr(OffsetOf(ev'.from)).name
            /\ traceLog'[i].curr = getSecByAddr(OffsetOf(ev'.to)).name
            /\ getSecByAddr(OffsetOf(ev'.to)) # getSecByAddr(lastKnownSectionOffset)
            /\ getSecByAddr(OffsetOf(ev'.to)) = getSecByAddr(lastKnownSectionOffset')]_vars

\* a branch inside .text, handled while the cursor was elsewhere, has written
\* a section-entry record from .text to .text
C19_Witness ==
    /\ ev = Edge(4195584, 4195584)
    /\ Len(traceLog) = 2
    /\ traceLog[1] = [kind |-> "section_entry", addr |-> OffsetOf(4195584),
                       prev |-> ".text", curr |-> ".text"]

(***************************************************************************)
(* The RDTSC spoofer.  Timer is a UINT64, kept as four 16-bit limbs, the   *)
(* most significant first; a 32-bit register is two limbs.  After an RDTSC *)
(* the engine calls AlterRdtscValueEdx and then AlterRdtscValueEax, each   *)
(* under the client lock, and writes what each returns to GDX and to GAX.  *)
(***************************************************************************)
LIMB == 65536
TIMER_STEP == 100

\* bounds of the timer specification
NThreads == 2
MaxReads == 3

Threads == 1..NThreads

\* (UINT64(edx) << 32) | eax
MakeTimer(edx, eax) == <<edx[1], edx[2], eax[1], eax[2]>>

\* t + n in 64 bits, for 0 <= n < LIMB
AddTimer(t, n) ==
    LET s4 == t[4] + n
        s3 == t[3] + (s4 \div LIMB)
        s2 == t[2] + (s3 \div LIMB)
        s1 == t[1] + (s2 \div LIMB)
    IN  <<s1 % LIMB, s2 % LIMB, s3 % LIMB, s4 % LIMB>>

\* (Timer << 32) >> 32 and Timer >> 32
LowHalf(t) == <<t[3], t[4]>>
HighHalf(t) == <<t[1], t[2]>>

\* the value _setTimer leaves in Timer, given the context's GDX and GAX
NextTimer(edx, eax) ==
    IF Timer = ZeroTimer THEN MakeTimer(edx, eax) ELSE AddTimer(Timer, TIMER_STEP)

\* the value _setTimer returns
_setTimer(edx, eax, isEax) ==
    IF isEax THEN LowHalf(NextTimer(edx, eax)) ELSE HighHalf(NextTimer(edx, eax))

\* the register pairs the real counter is seen with: 0, 5, 0xFFFFFF9C,
\* 0xFFFFFFFF:0xFFFFFF9C and 0xFFFFFFFF:0xFFFFFF38
RealCounters ==
    { <<0, 0, 0, 0>>, <<0, 0, 0, 5>>, <<0, 0, 65535, 65436>>,
      <<65535, 65535, 65535, 65436>>, <<65535, 65535, 65535, 65336>> }

\* the RDTSC instruction itself: the real counter goes to GDX:GAX
ExecRdtsc(t, real) ==
    /\ pc[t] = "run"
    /\ reads.started < MaxReads
    /\ regs' = [regs EXCEPT ![t] = [gdx |-> HighHalf(real), gax |-> LowHalf(real),
                                     seeded |-> FALSE, timerEdx |-> ZeroTimer]]
    /\ pc' = [pc EXCEPT ![t] = "edx"]
    /\ reads' = [reads EXCEPT !.started = @ + 1]
    /\ UNCHANGED <<Timer, traceVars, watchVars, moreVars>>

AlterRdtscValueEdx(t) ==
    /\ pc[t] = "edx"
    /\ Timer' = NextTimer(regs[t].gdx, regs[t].gax)
    /\ regs' = [regs EXCEPT ![t].gdx = _setTimer(regs[t].gdx, regs[t].gax, FALSE),
                            ![t].seeded = (Timer = ZeroTimer),
                            ![t].timerEdx = Timer']
    /\ pc' = [pc EXCEPT ![t] = "eax"]
    /\ UNCHANGED <<reads, traceVars, watchVars, moreVars>>

AlterRdtscValueEax(t) ==
    /\ pc[t] = "eax"
    /\ Timer' = NextTimer(regs[t].gdx, regs[t].gax)
    /\ regs' = [regs EXCEPT ![t].gax = _setTimer(regs[t].gdx, regs[t].gax, TRUE)]
    /\ pc' = [pc EXCEPT ![t] = "run"]
    /\ reads' = [reads EXCEPT !.done =
                   (IF @ = << >> THEN << >> ELSE << @[Len(@)] >>)
                   \o << [thread |-> t,
                          gdx |-> regs[t].gdx,
                          gax |-> regs'[t].gax,
                          seeded |-> regs[t].seeded \/ Timer = ZeroTimer,
                          timerEdx |-> regs[t].timerEdx,
                          timer |-> Timer'] >>]
    /\ UNCHANGED <<traceVars, watchVars, moreVars>>

InitTimer ==
    /\ loaded = {}
    /\ myModule = NoImg
    /\ lastKnownSectionOffset = UNKNOWN_ADDR
    /\ lastShellc = UNKNOWN_ADDR
    /\ m_FollowShellcode = SHELLC_DO_NOT_FOLLOW
    /\ m_TraceRDTSC = FALSE
    /\ probes = {}
    /\ traceLog = << >>
    /\ ev = [kind |-> "init", from |-> UNKNOWN_ADDR, to |-> UNKNOWN_ADDR]
    /\ replay = << >>
    /\ funcs = << >>
    /\ calls = << >>
    /\ Timer = ZeroTimer
    /\ regs = [t \in Threads |-> [gdx |-> <<0, 0>>, gax |-> <<0, 0>>,
                                  seeded |-> FALSE, timerEdx |-> ZeroTimer]]
    /\ pc = [t \in Threads |-> "run"]
    /\ reads = [started |-> 0, done |-> << >>]
    /\ IdleProbe
    /\ IdleLoad
    /\ IdleLock

NextTimerStep ==
    \/ \E t \in Threads, real \in RealCounters : ExecRdtsc(t, real)
    \/ \E t \in Threads : AlterRdtscValueEdx(t)
    \/ \E t \in Threads : AlterRdtscValueEax(t)

SpecTimer == InitTimer /\ [][NextTimerStep]_vars

\* C8: between two consecutive RDTSC executions, neither of them the one
\* that seeds the counter, the virtual counter advances by exactly 100.
C8_StepIs100 ==
    (/\ Len(reads.done) = 2
     /\ ~reads.done[1].seeded
     /\ ~reads.done[2].seeded)
    => reads.done[2].timer = AddTimer(reads.done[1].timer, 100)

\* C13: of every completed RDTSC, the value written to DX and the value
\* written to AX are the high and the low half of one value of the virtual
\* counter: the one it had when DX was computed or the one it had when AX was.
C13_HalvesOfOneValue ==
    \A i \in DOMAIN reads.done :
       MakeTimer(reads.done[i].gdx, reads.done[i].gax)
          \in {reads.done[i].timerEdx, reads.done[i].timer}

\* the first RDTSC of the session, the real counter being 0:0xFFFFFF9C: DX is
\* the high half of 0x00000000FFFFFF9C, AX the low half of 0x0000000100000000
C13_TornRead ==
    /\ reads.started = 1
    /\ Len(reads.done) = 1
    /\ reads.done[1].timerEdx = <<0, 0, 65535, 65436>>
    /\ reads.done[1].timer = <<0, 1, 0, 0>>
    /\ reads.done[1].gdx = <<0, 0>>
    /\ reads.done[1].gax = <<0, 0>>

\* C14: the branch of _setTimer that seeds the counter from the registers is
\* taken only while no RDTSC has completed yet, whatever the registers hold.
C14_SeededOnce ==
    [][(/\ Timer = ZeroTimer
        /\ \E t \in Threads : pc[t] \in {"edx", "eax"} /\ pc'[t] # pc[t])
       => reads.done = << >>]_vars

\* the counter is zero again after a completed RDTSC: the real counter was
\* 0:0 at the first RDTSC, or 0xFFFFFFFF:0xFFFFFF9C and the step wrapped it
C14_ZeroAfterRead ==
    /\ reads.started = 1
    /\ Len(reads.done) = 1
    /\ Timer = ZeroTimer

(***************************************************************************)
(* The watch list.                                                         *)
(***************************************************************************)
\* bounds of the watch-list specification
MaxParam == 2
MaxCalls == 3

\* WFuncInfo::update with the comparison left out: the new count always wins
update_Overwrite(this, func_info) ==
    [this EXCEPT !.paramCount = func_info.paramCount]

\* WFuncInfo::update: the entry as it is afterwards
update(this, func_info) ==
    IF this.paramCount < func_info.paramCount
    THEN [this EXCEPT !.paramCount = func_info.paramCount]
    ELSE this

\* findFunc comparing the names as they are spelled
findFunc_CaseSensitive(list, dllName, funcName) ==
    LET hits == {i \in 1..Len(list) :
                   list[i].dllName = dllName /\ list[i].funcName = funcName}
    IN  IF hits = {} THEN 0 ELSE CHOOSE i \in hits : \A j \in hits : i <= j

\* FuncWatchList::findFunc: the index of the first entry with the key, 0 for NULL
findFunc(list, dllName, funcName) ==
    LET hits == {i \in 1..Len(list) :
                   /\ iequals(list[i].dllName, dllName)
                   /\ iequals(list[i].funcName, funcName)}
    IN  IF hits = {} THEN 0 ELSE CHOOSE i \in hits : \A j \in hits : i <= j

\* FuncWatchList::appendFunc: the list as it is afterwards
appendTo(list, func_info) ==
    IF ~isValid(func_info) THEN list
    ELSE LET found == findFunc(list, func_info.dllName, func_info.funcName)
         IN  IF found = 0
             THEN Append(list, func_info)
             ELSE [list EXCEPT ![found] = update(list[found], func_info)]

\* the (module, function) names entries are given with
WatchKeys ==
    { <<<<"k">>, <<"f">>>>, <<<<"K">>, <<"F">>>>, <<<<"k">>, <<"g">>>>,
      <<<<"u">>, <<"f">>>>, <<<< >>, <<"f">>>>, <<<<"k">>, << >>>> }

WatchInfos ==
    { [dllName |-> k[1], funcName |-> k[2], paramCount |-> n] :
        k \in WatchKeys, n \in 0..MaxParam }

appendFunc(func_info) ==
    /\ Len(calls) < MaxCalls
    /\ funcs' = appendTo(funcs, func_info)
    /\ calls' = Append(calls, func_info)
    /\ UNCHANGED <<traceVars, timerVars, moreVars>>

InitWatch ==
    /\ loaded = {}
    /\ myModule = NoImg
    /\ lastKnownSectionOffset = UNKNOWN_ADDR
    /\ lastShellc = UNKNOWN_ADDR
    /\ m_FollowShellcode = SHELLC_DO_NOT_FOLLOW
    /\ m_TraceRDTSC = FALSE
    /\ probes = {}
    /\ traceLog = << >>
    /\ ev = [kind |-> "init", from |-> UNKNOWN_ADDR, to |-> UNKNOWN_ADDR]
    /\ replay = << >>
    /\ funcs = << >>
    /\ calls = << >>
    /\ Timer = ZeroTimer
    /\ regs = << >>
    /\ pc = << >>
    /\ reads = << >>
    /\ IdleProbe
    /\ IdleLoad
    /\ IdleLock

NextWatch == \E func_info \in WatchInfos : appendFunc(func_info)

SpecWatch == InitWatch /\ [][NextWatch]_vars

SameKey(a, b) == iequals(a.dllName, b.dllName) /\ iequals(a.funcName, b.funcName)

Max(a, b) == IF a > b THEN a ELSE b

\* C9: two valid entries with the same key and the counts a and b, added to
\* the empty list, leave exactly one entry for the key with the count
\* max(a, b), and adding them in the other order leaves the same.
C9_MergeLaw ==
    (/\ Len(calls) = 2
     /\ isValid(calls[1])
     /\ isValid(calls[2])
     /\ SameKey(calls[1], calls[2]))
    => LET other == appendTo(appendTo(<< >>, calls[2]), calls[1])
       IN  /\ Len(funcs) = 1
           /\ SameKey(funcs[1], calls[1])
           /\ funcs[1].paramCount = Max(calls[1].paramCount, calls[2].paramCount)
           /\ Len(other) = 1
           /\ SameKey(other[1], funcs[1])
           /\ other[1].paramCount = funcs[1].paramCount

\* the larger count came first, under another spelling of the key
C9_Witness ==
    /\ calls = << [dllName |-> <<"K">>, funcName |-> <<"F">>, paramCount |-> 2],
                  [dllName |-> <<"k">>, funcName |-> <<"f">>, paramCount |-> 1] >>
    /\ funcs = << [dllName |-> <<"K">>, funcName |-> <<"F">>, paramCount |-> 2] >>

\* C10: no two entries of the list have keys that are equal when case is
\* ignored, and no call of appendFunc removes a key or lowers its count.
C10_KeysAndCounts ==
    /\ [](\A i \in DOMAIN funcs, j \in DOMAIN funcs :
            SameKey(funcs[i], funcs[j]) => i = j)
    /\ [][\A i \in DOMAIN funcs :
            \E j \in DOMAIN funcs' :
               /\ SameKey(funcs[i], funcs'[j])
               /\ funcs'[j].paramCount >= funcs[i].paramCount]_vars

\* two keys are listed and the third call merged into one of them
C10_Witness ==
    /\ Len(calls) = 3
    /\ Len(funcs) = 2
    /\ \A i \in 1..3 : isValid(calls[i])
    /\ \E i \in 1..2 : funcs[i].paramCount > calls[3].paramCount /\ SameKey(funcs[i], calls[3])

(***************************************************************************)
(* paramToStr on its own: the memory behind the argument is any byte       *)
(* sequence up to MaxBytes over a printable byte, a control byte and NUL.  *)
(***************************************************************************)
MaxBytes == 3

\* 'a', 0x01 and NUL
ByteSamples == {97, 1, 0}

\* the argument values: NULL, an unreadable address, a readable one
ParamArgs == {0, 2000, 3000}

ByteSeqs == UNION {[1..n -> ByteSamples] : n \in 0..MaxBytes}

\* _LogFunctionArgs formatting one argument
FormatArg(arg1) ==
    /\ shown' = [arg |-> arg1, out |-> paramToStr(arg1)]
    /\ UNCHANGED <<memory, traceVars, watchVars, timerVars, loadVars, lockVars>>

InitParam ==
    /\ loaded = {}
    /\ myModule = NoImg
    /\ lastKnownSectionOffset = UNKNOWN_ADDR
    /\ lastShellc = UNKNOWN_ADDR
    /\ m_FollowShellcode = SHELLC_DO_NOT_FOLLOW
    /\ m_TraceRDTSC = FALSE
    /\ probes = {}
    /\ traceLog = << >>
    /\ ev = [kind |-> "init", from |-> UNKNOWN_ADDR, to |-> UNKNOWN_ADDR]
    /\ replay = << >>
    /\ funcs = << >>
    /\ calls = << >>
    /\ Timer = ZeroTimer
    /\ regs = << >>
    /\ pc = << >>
    /\ reads = << >>
    /\ memory \in {(3000 :> bytes) : bytes \in ByteSeqs}
    /\ shown = NoShown
    /\ IdleLoad
    /\ IdleLock

NextParam == \E arg1 \in ParamArgs : FormatArg(arg1)

SpecParam == InitParam /\ [][NextParam]_vars

\* the bytes behind a readable argument, NUL beyond them
BytesAt(a) == memory[a]

\* L1: how many printable bytes the memory starts with
L1(a) ==
    LET b == BytesAt(a)
    IN  CHOOSE n \in 0..Len(b) :
           /\ \A i \in 1..n : 32 <= b[i] /\ b[i] < 127
           /\ n < Len(b) => ~(32 <= b[n + 1] /\ b[n + 1] < 127)

\* the 16-bit unit i (from 1) of the memory, little endian
UnitAt(a, i) ==
    LET b == BytesAt(a)
        lo == IF 2 * i - 1 <= Len(b) THEN b[2 * i - 1] ELSE 0
        hi == IF 2 * i <= Len(b) THEN b[2 * i] ELSE 0
    IN  lo + 256 * hi

\* L2: how many printable 16-bit units the memory starts with
L2(a) ==
    LET units == (Len(BytesAt(a)) + 1) \div 2
    IN  CHOOSE n \in 0..units :
           /\ \A i \in 1..n : 32 <= UnitAt(a, i) /\ UnitAt(a, i) < 127
           /\ n < units => ~(32 <= UnitAt(a, n + 1) /\ UnitAt(a, n + 1) < 127)

Readable(a) == a \in DOMAIN memory

\* C11: a null argument is written as "0", an unreadable one as a bare
\* hexadecimal scalar, a readable one with more than one leading printable
\* byte as a quoted ASCII string, one with exactly one leading printable byte
\* and at least as many leading printable UTF-16 units as a quoted wide
\* string, and one with no leading printable byte as a 'ptr' value.
C11_DecisionTable ==
    shown.out.class # "none" =>
       /\ shown.arg = 0 => shown.out = [class |-> "zero", value |-> 0]
       /\ (shown.arg # 0 /\ ~Readable(shown.arg))
             => shown.out = [class |-> "hex", value |-> shown.arg]
       /\ (Readable(shown.arg) /\ L1(shown.arg) > 1)
             => shown.out = [class |-> "ascii", value |-> shown.arg]
       /\ (Readable(shown.arg) /\ L1(shown.arg) = 1
              /\ L2(shown.arg) >= L1(shown.arg))
             => shown.out = [class |-> "wide", value |-> shown.arg]
       /\ (Readable(shown.arg) /\ L1(shown.arg) = 0)
             => shown.out = [class |-> "ptr", value |-> shown.arg]

\* 'a', NUL and a control byte were classified as a wide string
C11_Witness ==
    /\ memory[3000] = <<97, 0, 1>>
    /\ shown = [arg |-> 3000, out |-> [class |-> "wide", value |-> 3000]]

\* the five classes of text
Classes == {"zero", "hex", "ascii", "wide", "ptr"}

\* C20: a readable argument with exactly one leading printable byte and no
\* leading printable UTF-16 unit is written as a 'ptr' value, and every
\* argument is written in exactly one of the five classes.
C20_Total ==
    shown.out.class # "none" =>
       /\ shown.out.class \in Classes
       /\ (Readable(shown.arg) /\ L1(shown.arg) = 1 /\ L2(shown.arg) = 0)
             => shown.out = [class |-> "ptr", value |-> shown.arg]

\* 'a' and a control byte: one printable byte, the first unit is 0x0161
C20_Witness ==
    /\ memory[3000] = <<97, 1>>
    /\ L1(3000) = 1
    /\ L2(3000) = 0
    /\ shown = [arg |-> 3000, out |-> [class |-> "ptr", value |-> 3000]]

(***************************************************************************)
(* The handlers as the threads of the target run them: each is called,     *)
(* takes the client lock where its code calls PIN_LockClient, runs its     *)
(* body, and gives the lock back where its code calls PIN_UnlockClient.    *)
(* hnd[t].pos is "idle" (not in a handler), "start" (called, before its    *)
(* first statement), "lock" (at PIN_LockClient), "locked" (before the      *)
(* body) or "done" (at PIN_UnlockClient).                                  *)
(***************************************************************************)
Workers == {1, 2}

\* how many times the spoofing callbacks are called
MaxSpoofs == 2

Idle == [pos |-> "idle", kind |-> "none", a |-> 0, b |-> 0]

\* the events of the session and their arguments
EdgeCalls ==
    {[kind |-> "edge", a |-> 4195584, b |-> to] : to \in {4198912, 117440528}}
CtxCalls ==
    {[kind |-> "ctx", a |-> from, b |-> [null |-> FALSE, REG_INST_PTR |-> 4195584]] :
        from \in {NULL, [null |-> FALSE, REG_INST_PTR |-> 4198912]}}
LoadCalls == {[kind |-> "load", a |-> Image, b |-> 0] : Image \in Images}
LogCalls ==
    {[kind |-> "rdtsc", a |-> 4195584, b |-> 0], [kind |-> "cpuid", a |-> 65552, b |-> 1]}
SpoofCalls == {[kind |-> "edx", a |-> 0, b |-> 0], [kind |-> "eax", a |-> 0, b |-> 0]}
ProbeCalls == {[kind |-> "probe", a |-> 4195584, b |-> pr] : pr \in probes}

\* the engine calls a handler in thread t
Call(t, h) ==
    /\ hnd[t].pos = "idle"
    /\ h.kind = "load" =>
          /\ h.a \notin loaded
          /\ \A u \in Workers : ~(hnd[u].kind = "load" /\ hnd[u].a = h.a)
    /\ h.kind \in {"edx", "eax"} => reads.started < MaxSpoofs
    /\ reads' = IF h.kind \in {"edx", "eax"}
                THEN [reads EXCEPT !.started = @ + 1]
                ELSE reads
    /\ hnd' = [hnd EXCEPT ![t] =
                 [pos |-> IF h.kind = "ctx" THEN "start" ELSE "lock",
                  kind |-> h.kind, a |-> h.a, b |-> h.b]]
    /\ UNCHANGED <<traceVars, watchVars, Timer, regs, pc, probeVars, loadVars, lock>>

\* OnCtxChange entering its body without PIN_LockClient
OnCtxChangeCheck_NoLock(t) ==
    /\ hnd[t].pos = "start"
    /\ hnd[t].kind = "ctx"
    /\ hnd' = [hnd EXCEPT ![t] =
                 IF hnd[t].b = NULL \/ hnd[t].a = NULL
                 THEN Idle
                 ELSE [@ EXCEPT !.pos = "locked"]]
    /\ UNCHANGED <<traceVars, watchVars, timerVars, probeVars, loadVars, lock>>

\* OnCtxChange: if (ctxtTo == NULL || ctxtFrom == NULL) return;
OnCtxChangeCheck(t) ==
    /\ hnd[t].pos = "start"
    /\ hnd[t].kind = "ctx"
    /\ hnd' = [hnd EXCEPT ![t] =
                 IF hnd[t].b = NULL \/ hnd[t].a = NULL
                 THEN Idle
                 ELSE [@ EXCEPT !.pos = "lock"]]
    /\ UNCHANGED <<traceVars, watchVars, timerVars, probeVars, loadVars, lock>>

PIN_LockClient(t) ==
    /\ hnd[t].pos = "lock"
    /\ lock = 0
    /\ lock' = t
    /\ hnd' = [hnd EXCEPT ![t].pos = "locked"]
    /\ UNCHANGED <<traceVars, watchVars, timerVars, probeVars, loadVars>>

PIN_UnlockClient(t) ==
    /\ hnd[t].pos = "done"
    /\ lock' = 0
    /\ hnd' = [hnd EXCEPT ![t] = Idle]
    /\ UNCHANGED <<traceVars, watchVars, timerVars, probeVars, loadVars>>

\* thread t runs the body of the handler of the given kind
InBody(t, kind) ==
    /\ hnd[t].pos = "locked"
    /\ hnd[t].kind = kind
    /\ hnd' = [hnd EXCEPT ![t].pos = "done"]
    /\ UNCHANGED lock

\* the bodies, between PIN_LockClient and PIN_UnlockClient
Locked_SaveTransitions(t) ==
    /\ InBody(t, "edge")
    /\ _SaveTransitions(hnd[t].a, hnd[t].b)
    /\ UNCHANGED <<replay, watchVars, timerVars, probeVars, loadVars>>

Locked_OnCtxChange(t) ==
    /\ InBody(t, "ctx")
    /\ _SaveTransitions(hnd[t].a.REG_INST_PTR, hnd[t].b.REG_INST_PTR)
    /\ UNCHANGED <<replay, watchVars, timerVars, probeVars, loadVars>>

Locked_ImageLoad(t) ==
    /\ InBody(t, "load")
    /\ loaded' = loaded \cup {hnd[t].a}
    /\ myModule' = addModule(hnd[t].a)
    /\ probes' = probes \cup
          UNION { MonitorFunctionArgs(hnd[t].a, funcs[i]) :
                    i \in { j \in 1..Len(funcs) :
                              iequals(getDllName(IMG_Name(hnd[t].a)), funcs[j].dllName) } }
    /\ traceLog' = << >>
    /\ ev' = [kind |-> "load", from |-> hnd[t].a.base, to |-> UNKNOWN_ADDR]
    /\ UNCHANGED <<lastKnownSectionOffset, lastShellc, m_FollowShellcode,
                   m_TraceRDTSC, replay, watchVars, timerVars, probeVars, loadVars>>

Locked_RdtscCalled(t) ==
    /\ InBody(t, "rdtsc")
    /\ traceLog' = RdtscLog(hnd[t].a)
    /\ ev' = [kind |-> "rdtsc", from |-> hnd[t].a, to |-> UNKNOWN_ADDR]
    /\ UNCHANGED <<loaded, myModule, lastKnownSectionOffset, lastShellc,
                   m_FollowShellcode, m_TraceRDTSC, probes, replay,
                   watchVars, timerVars, probeVars, loadVars>>

Locked_CpuidCalled(t) ==
    /\ InBody(t, "cpuid")
    /\ traceLog' = CpuidLog(hnd[t].a, hnd[t].b)
    /\ ev' = [kind |-> "cpuid", from |-> hnd[t].a, to |-> UNKNOWN_ADDR]
    /\ UNCHANGED <<loaded, myModule, lastKnownSectionOffset, lastShellc,
                   m_FollowShellcode, m_TraceRDTSC, probes, replay,
                   watchVars, timerVars, probeVars, loadVars>>

Locked_AlterRdtscValueEdx(t) ==
    /\ InBody(t, "edx")
    /\ Timer' = NextTimer(regs[t].gdx, regs[t].gax)
    /\ regs' = [regs EXCEPT ![t].gdx = _setTimer(regs[t].gdx, regs[t].gax, FALSE)]
    /\ UNCHANGED <<traceVars, watchVars, pc, reads, probeVars, loadVars>>

Locked_AlterRdtscValueEax(t) ==
    /\ InBody(t, "eax")
    /\ Timer' = NextTimer(regs[t].gdx, regs[t].gax)
    /\ regs' = [regs EXCEPT ![t].gax = _setTimer(regs[t].gdx, regs[t].gax, TRUE)]
    /\ UNCHANGED <<traceVars, watchVars, pc, reads, probeVars, loadVars>>

Locked_LogFunctionArgs(t) ==
    /\ InBody(t, "probe")
    /\ traceLog' = ArgsLog(hnd[t].a, hnd[t].b.argNum,
                           [i \in 1..Min(hnd[t].b.argNum, argsMax) |-> 3000])
    /\ ev' = [kind |-> "probe", from |-> hnd[t].a, to |-> UNKNOWN_ADDR]
    /\ UNCHANGED <<loaded, myModule, lastKnownSectionOffset, lastShellc,
                   m_FollowShellcode, m_TraceRDTSC, probes, replay,
                   watchVars, timerVars, probeVars, loadVars>>

InitLock ==
    /\ loaded = {}
    /\ myModule = NoImg
    /\ lastKnownSectionOffset = UNKNOWN_ADDR
    /\ lastShellc = UNKNOWN_ADDR
    /\ m_FollowShellcode = SHELLC_FOLLOW_RECURSIVE
    /\ m_TraceRDTSC = TRUE
    /\ probes = {}
    /\ traceLog = << >>
    /\ ev = [kind |-> "init", from |-> UNKNOWN_ADDR, to |-> UNKNOWN_ADDR]
    /\ replay = << >>
    /\ funcs = WatchSample
    /\ calls = << >>
    /\ Timer = ZeroTimer
    /\ regs = [t \in Workers |-> [gdx |-> <<0, 0>>, gax |-> <<0, 5>>,
                                  seeded |-> FALSE, timerEdx |-> ZeroTimer]]
    /\ pc = [t \in Workers |-> "run"]
    /\ reads = [started |-> 0, done |-> << >>]
    /\ IdleProbe
    /\ IdleLoad
    /\ lock = 0
    /\ hnd = [t \in Workers |-> Idle]

NextLock ==
    \/ \E t \in Workers : \E h \in EdgeCalls : Call(t, h)
    \/ \E t \in Workers : \E h \in CtxCalls : Call(t, h)
    \/ \E t \in Workers : \E h \in LoadCalls : Call(t, h)
    \/ \E t \in Workers : \E h \in LogCalls : Call(t, h)
    \/ \E t \in Workers : \E h \in SpoofCalls : Call(t, h)
    \/ \E t \in Workers : \E h \in ProbeCalls : Call(t, h)
    \/ \E t \in Workers : OnCtxChangeCheck(t)
    \/ \E t \in Workers : PIN_LockClient(t)
    \/ \E t \in Workers : Locked_SaveTransitions(t)
    \/ \E t \in Workers : Locked_OnCtxChange(t)
    \/ \E t \in Workers : Locked_ImageLoad(t)
    \/ \E t \in Workers : Locked_RdtscCalled(t)
    \/ \E t \in Workers : Locked_CpuidCalled(t)
    \/ \E t \in Workers : Locked_AlterRdtscValueEdx(t)
    \/ \E t \in Workers : Locked_AlterRdtscValueEax(t)
    \/ \E t \in Workers : Locked_LogFunctionArgs(t)
    \/ \E t \in Workers : PIN_UnlockClient(t)

SpecLock == InitLock /\ [][NextLock]_vars

\* the state the handlers share
SharedState ==
    <<loaded, myModule, probes, lastKnownSectionOffset, lastShellc, Timer, traceLog>>

InCritical(t) == hnd[t].pos \in {"locked", "done"}

\* C12: a thread is between PIN_LockClient and PIN_UnlockClient only while it
\* holds the client lock, so at most one thread is; a thread that is not in a
\* handler does not hold the lock; and the registry, the section cursor, the
\* shellcode page, the virtual counter and the log change only in a step of
\* the body of the thread that holds the lock.
C12_OneCriticalSection ==
    /\ [](\A t \in Workers : InCritical(t) => lock = t)
    /\ [](Cardinality({t \in Workers : InCritical(t)}) <= 1)
    /\ [](\A t \in Workers : hnd[t].pos \in {"idle", "start", "lock"} => lock # t)
    /\ [][SharedState' # SharedState =>
            /\ lock \in Workers
            /\ hnd[lock].pos = "locked"
            /\ hnd'[lock].pos = "done"
            /\ lock' = lock]_vars

\* thread 1 has written the records of an edge and still holds the lock
\* while thread 2 waits for it in OnCtxChange
C12_Witness ==
    /\ hnd[1].kind = "edge"
    /\ hnd[1].pos = "done"
    /\ traceLog # << >>
    /\ lock = 1
    /\ hnd[2].kind = "ctx"
    /\ hnd[2].pos = "lock"

(***************************************************************************)
(* FuncWatchList::loadList.  The file is its lines (without the line ends) *)
(* and whether the last line is ended by a newline; the stream is the      *)
(* index of the line read next and the state of the std::ifstream: "good", *)
(* "fail" (failbit only) or "eof".                                         *)
(***************************************************************************)
MAX_LINE == 300

\* how many lines the files have at most
MaxLines == 3

RECURSIVE split_list(_, _)
\* the fields std::getline(f, s, delimiter) gives one after the other
split_list(sline, delimiter) ==
    IF sline = << >> THEN << >>
    ELSE LET hits == {i \in 1..Len(sline) : sline[i] = delimiter}
         IN  IF hits = {} THEN << sline >>
             ELSE LET i == CHOOSE j \in hits : \A k \in hits : j <= k
                  IN  << SubSeq(sline, 1, i - 1) >>
                        \o split_list(SubSeq(sline, i + 1, Len(sline)), delimiter)

Digits == <<"0", "1", "2", "3", "4", "5", "6", "7", "8", "9">>

DigitValue(c) == (CHOOSE d \in 1..10 : Digits[d] = c) - 1

IsDigit(c) == \E d \in 1..10 : Digits[d] = c

RECURSIVE ReadDec(_, _)
\* ss >> paramCount: the value of the digits the text starts with, given the
\* value read so far; 0 when it starts with none
ReadDec(text, value) ==
    IF text = << >> \/ ~IsDigit(Head(text)) THEN value
    ELSE ReadDec(Tail(text), 10 * value + DigitValue(Head(text)))

\* WFuncInfo::load: the entry, or none when the line has fewer than 3 fields
NoFunc == [dllName |-> << >>, funcName |-> << >>, paramCount |-> 0, ok |-> FALSE]

load(sline, delimiter) ==
    LET args == split_list(sline, delimiter)
    IN  IF Len(args) < 3 THEN NoFunc
        ELSE [dllName |-> args[1], funcName |-> args[2],
              paramCount |-> ReadDec(args[3], 0), ok |-> TRUE]

\* myfile.getline(line, MAX_LINE): what is left in line, and the stream after
getline(count) ==
    IF stream.state # "good"
    THEN [line |-> << >>, stream |-> stream]
    ELSE IF stream.line > Len(file.lines)
    THEN [line |-> << >>, stream |-> [stream EXCEPT !.state = "eof"]]
    ELSE LET text == file.lines[stream.line]
             last == stream.line = Len(file.lines) /\ ~file.nl
         IN  IF Len(text) > count - 1
             THEN [line |-> SubSeq(text, 1, count - 1),
                   stream |-> [stream EXCEPT !.state = "fail"]]
             ELSE [line |-> text,
                   stream |-> [line |-> stream.line + 1,
                               state |-> IF last THEN "eof" ELSE "good"]]

\* the list after: if (func_info.load(line, ';')) appendFunc(func_info);
loadLine(line) ==
    LET func_info == load(line, ";")
    IN  IF func_info.ok
        THEN appendTo(funcs, [dllName |-> func_info.dllName,
                              funcName |-> func_info.funcName,
                              paramCount |-> func_info.paramCount])
        ELSE funcs

\* one turn of the loop of loadList
loadListStep ==
    /\ stream.state \in {"good", "fail"}
    /\ stream' = getline(MAX_LINE).stream
    /\ funcs' = loadLine(getline(MAX_LINE).line)
    /\ UNCHANGED <<file, calls, traceVars, timerVars, probeVars, lockVars>>

\* the lines the files are made of
LongLine == <<"u", ";", "h", ";", "1">> \o [i \in 1..(MAX_LINE - 4) |-> "x"]

LineSamples ==
    { <<"k", ";", "f", ";", "2">>, <<"K", ";", "F", ";", "1">>,
      <<"u", ";", "g", ";", "1">>, <<"k", ";", "f">>, << >>, LongLine }

Files ==
    {[lines |-> << >>, nl |-> TRUE]} \cup
    {[lines |-> l, nl |-> e] :
        l \in UNION {[1..n -> LineSamples] : n \in 1..MaxLines}, e \in BOOLEAN}

InitLoad ==
    /\ loaded = {}
    /\ myModule = NoImg
    /\ lastKnownSectionOffset = UNKNOWN_ADDR
    /\ lastShellc = UNKNOWN_ADDR
    /\ m_FollowShellcode = SHELLC_DO_NOT_FOLLOW
    /\ m_TraceRDTSC = FALSE
    /\ probes = {}
    /\ traceLog = << >>
    /\ ev = [kind |-> "init", from |-> UNKNOWN_ADDR, to |-> UNKNOWN_ADDR]
    /\ replay = << >>
    /\ funcs = << >>
    /\ calls = << >>
    /\ Timer = ZeroTimer
    /\ regs = << >>
    /\ pc = << >>
    /\ reads = << >>
    /\ IdleProbe
    /\ file \in Files
    /\ stream = [line |-> 1, state |-> "good"]
    /\ IdleLock

NextLoad == loadListStep

SpecLoad == InitLoad /\ [][NextLoad]_vars

\* a line with at least 3 fields that fits the line buffer with its terminator
WellFormed(l) == Len(split_list(l, ";")) >= 3 /\ Len(l) < MAX_LINE

RECURSIVE LoadedFrom(_, _)
\* the watch list the well-formed lines give, added in their order to list
LoadedFrom(lines, list) ==
    IF lines = << >> THEN list
    ELSE LET f == load(Head(lines), ";")
         IN  LoadedFrom(Tail(lines),
                        IF WellFormed(Head(lines))
                        THEN appendTo(list, [dllName |-> f.dllName,
                                             funcName |-> f.funcName,
                                             paramCount |-> f.paramCount])
                        ELSE list)

\* the loop goes on and one more turn of it changes nothing: it never ends
Looping ==
    /\ stream.state \in {"good", "fail"}
    /\ getline(MAX_LINE).stream = stream
    /\ loadLine(getline(MAX_LINE).line) = funcs

\* C18: loadList never comes to a turn of its loop that leaves everything as
\* it is, so it ends on every file; no entry of the list comes from a
\* malformed line; and at the end the list is what the well-formed lines
\* give, those before and after a malformed line alike.
C18_SkipsMalformed ==
    /\ ~Looping
    /\ \A i \in DOMAIN funcs :
          \E j \in DOMAIN file.lines :
             /\ WellFormed(file.lines[j])
             /\ SameKey(funcs[i], load(file.lines[j], ";"))
    /\ stream.state = "eof" => funcs = LoadedFrom(file.lines, << >>)

\* a line of 301 characters between two well-formed lines: the first line is
\* loaded, the first 299 characters of the long line are loaded as an entry,
\* the stream has failed and the third line is never read
C18_Stuck ==
    /\ file.lines = << <<"k", ";", "f", ";", "2">>, LongLine,
                       <<"u", ";", "g", ";", "1">> >>
    /\ stream = [line |-> 2, state |-> "fail"]
    /\ funcs = << [dllName |-> <<"k">>, funcName |-> <<"f">>, paramCount |-> 2],
                  [dllName |-> <<"u">>, funcName |-> <<"h">>, paramCount |-> 1] >>
    /\ Looping

\* without the long line every file is loaded as the claim says
C18_ShortLinesLoad ==
    (stream.state = "eof" /\ \A j \in DOMAIN file.lines : file.lines[j] # LongLine)
       => funcs = LoadedFrom(file.lines, << >>)

=============================================================================
